---------------------------- MODULE Spec2Model ----------------------------
(***************************************************************************)
(* A model of pyndn.interest.Interest: the fields, the change-tracked      *)
(* wrappers around the name, the key locator and the exclude, the change   *)
(* count, the nonce invalidation of getNonce/setNonce and toUri.           *)
(*                                                                         *)
(* A Python string is a sequence of tokens (TLA+ strings), so that         *)
(* concatenation is \o and selectors[1:] is Tail.                          *)
(***************************************************************************)
EXTENDS Integers, Sequences, FiniteSets, TLC

VARIABLES
    p,          \* the Interest object
    lastOp,     \* history: the last operation called, with its argument
    ret,        \* history: what the last operation returned
    nonceArg,   \* history: the bytes given to the last setNonce, or None
    since,      \* history: what was called since the last setNonce
    obs,        \* history: the last value a getChangeCount() call computed
    sinceObs,   \* history: what was called since that getChangeCount()
    mark,       \* history: the value some earlier getChangeCount() returned
    sinceMark,  \* history: whether anything was changed since that call
    order,      \* a second Interest, and the calls both are built with
    codec,      \* the default wire format, and the last wireEncode/wireDecode
    aes         \* AesAlgorithm: the inputs, the cipher calls and the results

vars == <<p, lastOp, ret, nonceArg, since, obs, sinceObs, mark, sinceMark, order,
          codec, aes>>

\* ---------------------------------------------------------------- bounds

MaxChangeCount == 3
MaxSubCount == 2
MaxNameLen == 1
MaxExcludeLen == 1
UriMaxChangeCount == 8
MaxCalls == 3
CodecMaxChangeCount == 9

\* ---------------------------------------------------- Python values

\* Every Python value is a record that carries its type, so that a test such
\* as type(name) == Name is a test of the record.
None == [type |-> "NoneType"]
PyInt(n) == [type |-> "int", v |-> n]
PyFloat(n) == [type |-> "float", v |-> n]
PyBool(b) == [type |-> "bool", v |-> b]
PyStr(s) == [type |-> "str", v |-> s]
Blob(bytes) == [type |-> "Blob", v |-> bytes]
ByteArray(bytes) == [type |-> "bytearray", v |-> bytes]
Name(count, components) == [type |-> "Name", count |-> count, v |-> components]
KeyLocator(count, keyType) == [type |-> "KeyLocator", count |-> count, v |-> keyType]
Exclude(count, entries) == [type |-> "Exclude", count |-> count, v |-> entries]

\* Python's truth value of an argument.
Truthy(x) ==
    CASE x.type = "bool" -> x.v
      [] x.type = "int" -> x.v # 0
      [] OTHER -> FALSE

\* float(x) of an int or a float.
ToFloat(x) == PyFloat(x.v)

\* repr(x) of an int or a float, as tokens.
Digits(n) == IF n = 1 THEN "1" ELSE IF n = 2 THEN "2" ELSE "4000"
Repr(x) ==
    CASE x.type = "int" -> <<Digits(x.v)>>
      [] x.type = "float" -> <<Digits(x.v), ".0">>
      [] OTHER -> <<x.type>>

\* ---------------------------------------------------------------- inputs

SubCounts == 0 .. MaxSubCount
IntArgs == {None, PyInt(1)}
LifetimeArgs == {None, PyInt(4000), PyFloat(4000)}
MustBeFreshArgs == {PyBool(TRUE), PyBool(FALSE), None}
\* A str (copied into a new Name) or a Name object with its own change count.
NameArgs == {PyStr("a")} \cup {Name(c, <<"b">>) : c \in SubCounts}
InitNameArgs == {None, PyStr("a")}
ExcludeArgs == {None} \cup {Exclude(c, <<"x">>) : c \in SubCounts}
KeyLocatorArgs == {None} \cup {KeyLocator(c, "KEYNAME") : c \in SubCounts}
\* A Blob, or a raw byte array that setNonce copies into a Blob.
NonceArgs == {Blob(<<>>), Blob(<<1>>), ByteArray(<<2>>)}

\* ------------------------------------------------- the sub-object contract

\* Name(value) of a value that is no Name: a new Name, which nothing has
\* mutated yet.
NewName(value) ==
    CASE value.type = "str" -> Name(0, <<value.v>>)
      [] OTHER -> Name(0, <<>>)

\* KeyLocator(value) and Exclude(value): a new object, a copy of the value
\* when it is one of the same type, else the empty default.
NewKeyLocator(value) ==
    CASE value.type = "KeyLocator" -> KeyLocator(0, value.v)
      [] OTHER -> KeyLocator(0, "NONE")
NewExclude(value) ==
    CASE value.type = "Exclude" -> Exclude(0, value.v)
      [] OTHER -> Exclude(0, <<>>)

\* ChangeCounter(target): the wrapper and its snapshot of the target's count.
ChangeCounter(target) == [target |-> target, snap |-> target.count]

\* ChangeCounter.get()
get(w) == w.target

\* ChangeCounter.set(target): replaces the target, leaves the snapshot.
set(w, target) == [w EXCEPT !.target = target]

\* ChangeCounter.checkChanged(): a consuming poll.
checkChanged(w) ==
    [self |-> [w EXCEPT !.snap = w.target.count],
     ret |-> (w.snap # w.target.count)]

\* A mutation of the sub-object itself raises its own change count.
Mutated(w, value) ==
    [w EXCEPT !.target.count = @ + 1, !.target.v = value]

\* Name.toUri(), Exclude.toUri() and Name.toEscapedString(buf), as tokens.
NameToUri(components) ==
    IF components = <<>> THEN <<"/">>
    ELSE [i \in 1 .. 2 * Len(components) |->
            IF i % 2 = 1 THEN "/" ELSE components[i \div 2]]
ExcludeToUri(entries) ==
    IF entries = <<>> THEN <<>>
    ELSE [i \in 1 .. 2 * Len(entries) - 1 |->
            IF i % 2 = 1 THEN entries[(i + 1) \div 2] ELSE ","]
ToEscapedString(bytes) ==
    [i \in 1 .. Len(bytes) |-> IF bytes[i] = 1 THEN "%01" ELSE "%02"]

\* ---------------------------------------------------------------- Interest

\* type(x), and the classes the code compares it with.
TypeOf(x) == [type |-> "type", v |-> x.type]
NameClass == [type |-> "type", v |-> "Name"]
BlobClass == [type |-> "type", v |-> "Blob"]

\* Interest.__init__(name)
InterestInit(name) ==
    [name |-> ChangeCounter(IF TypeOf(name) = NameClass THEN name ELSE NewName(name)),
     minSuffixComponents |-> None,
     maxSuffixComponents |-> None,
     keyLocator |-> ChangeCounter(NewKeyLocator(None)),
     exclude |-> ChangeCounter(NewExclude(None)),
     childSelector |-> None,
     mustBeFresh |-> FALSE,
     nonce |-> Blob(<<>>),
     scope |-> None,
     interestLifetimeMilliseconds |-> None,
     getNonceChangeCount |-> 0,
     changeCount |-> 0]

\* A getChangeCount() that forgets the exclude's poll result.
getChangeCountForgetsExclude(self, n, k, e) ==
    LET changed == (k.ret \/ n.ret)
    IN  [self EXCEPT !.name = n.self, !.keyLocator = k.self, !.exclude = e.self,
                     !.changeCount = IF changed THEN @ + 1 ELSE @]

\* A getChangeCount() that forgets the name's poll result.
getChangeCountForgetsName(self, n, k, e) ==
    LET changed == (e.ret \/ k.ret)
    IN  [self EXCEPT !.name = n.self, !.keyLocator = k.self, !.exclude = e.self,
                     !.changeCount = IF changed THEN @ + 1 ELSE @]

\* A getChangeCount() that raises the change count on every call.
getChangeCountAlwaysChanged(self, n, k, e) ==
    [self EXCEPT !.name = n.self, !.keyLocator = k.self, !.exclude = e.self,
                 !.changeCount = @ + 1]

\* A getChangeCount() that counts every changed sub-object.
getChangeCountCountsEach(self, n, k, e) ==
    [self EXCEPT !.name = n.self, !.keyLocator = k.self, !.exclude = e.self,
                 !.changeCount = @ + (IF n.ret THEN 1 ELSE 0) + (IF k.ret THEN 1 ELSE 0)
                                   + (IF e.ret THEN 1 ELSE 0)]

\* Interest.getChangeCount(), after the three polls n, k and e: the Interest
\* with the polled wrappers, and the change count raised by one if any of the
\* three reported a change.
getChangeCountPolled(self, n, k, e) ==
    LET changed == (e.ret \/ (k.ret \/ n.ret))
    IN  [self EXCEPT !.name = n.self, !.keyLocator = k.self, !.exclude = e.self,
                     !.changeCount = IF changed THEN @ + 1 ELSE @]

Returning(self) == [self |-> self, ret |-> self.changeCount]

\* Interest.getChangeCount(): polls the three wrappers, all of them.
getChangeCount(self) ==
    Returning(getChangeCountPolled(self, checkChanged(self.name),
                                   checkChanged(self.keyLocator),
                                   checkChanged(self.exclude)))

\* A getNonce() that clears a stale nonce and leaves _getNonceChangeCount.
getNonceClearedKeepsSnapshot(c) ==
    [self |-> [c.self EXCEPT !.nonce = Blob(<<>>)], ret |-> Blob(<<>>)]

\* A getNonce() that refreshes _getNonceChangeCount and leaves a stale nonce.
getNonceKeepsNonce(c) ==
    [self |-> [c.self EXCEPT !.getNonceChangeCount = c.ret], ret |-> c.self.nonce]

\* Interest.getNonce(), the body of its if: c is the second getChangeCount().
getNonceCleared(c) ==
    [self |-> [c.self EXCEPT !.nonce = Blob(<<>>), !.getNonceChangeCount = c.ret],
     ret |-> Blob(<<>>)]

\* Interest.getNonce(), from its comparison on: c is the first getChangeCount().
getNonceCompared(self, c) ==
    IF self.getNonceChangeCount # c.ret
    THEN getNonceCleared(getChangeCount(c.self))
    ELSE [self |-> c.self, ret |-> c.self.nonce]

\* Interest.getNonce()
getNonce(self) == getNonceCompared(self, getChangeCount(self))

\* The plain getters.
getName(self) == get(self.name)
getKeyLocator(self) == get(self.keyLocator)
getExclude(self) == get(self.exclude)
getMinSuffixComponents(self) == self.minSuffixComponents
getMaxSuffixComponents(self) == self.maxSuffixComponents
getChildSelector(self) == self.childSelector
getMustBeFresh(self) == PyBool(self.mustBeFresh)
getScope(self) == self.scope
getInterestLifetimeMilliseconds(self) == self.interestLifetimeMilliseconds

Getters ==
    {"getName", "getMinSuffixComponents", "getMaxSuffixComponents", "getKeyLocator",
     "getExclude", "getChildSelector", "getMustBeFresh", "getScope",
     "getInterestLifetimeMilliseconds"}

Get(self, getter) ==
    CASE getter = "getName" -> getName(self)
      [] getter = "getMinSuffixComponents" -> getMinSuffixComponents(self)
      [] getter = "getMaxSuffixComponents" -> getMaxSuffixComponents(self)
      [] getter = "getKeyLocator" -> getKeyLocator(self)
      [] getter = "getExclude" -> getExclude(self)
      [] getter = "getChildSelector" -> getChildSelector(self)
      [] getter = "getMustBeFresh" -> getMustBeFresh(self)
      [] getter = "getScope" -> getScope(self)
      [] getter = "getInterestLifetimeMilliseconds" ->
            getInterestLifetimeMilliseconds(self)

\* A plain getter that computes the change count on its way.
GetterCallPolls(self, getter) ==
    [self |-> getChangeCount(self).self, ret |-> Get(self, getter)]

\* A call of a plain getter: a return statement and nothing else, so the
\* Interest after the call is the Interest before it.
GetterCall(self, getter) == [self |-> self, ret |-> Get(self, getter)]

\* A setName() that leaves it to the wrapper to notice the new name.
setNameNoCount(self, name) ==
    [self EXCEPT
        !.name = set(@, IF TypeOf(name) = NameClass THEN name ELSE NewName(name))]

setName(self, name) ==
    [self EXCEPT
        !.name = set(@, IF TypeOf(name) = NameClass THEN name ELSE NewName(name)),
        !.changeCount = @ + 1]

setMinSuffixComponents(self, minSuffixComponents) ==
    [self EXCEPT !.minSuffixComponents = minSuffixComponents, !.changeCount = @ + 1]

\* A setMaxSuffixComponents() that resets the minimum as well.
setMaxSuffixComponentsClearsMin(self, maxSuffixComponents) ==
    [self EXCEPT !.maxSuffixComponents = maxSuffixComponents,
                 !.minSuffixComponents = None, !.changeCount = @ + 1]

setMaxSuffixComponents(self, maxSuffixComponents) ==
    [self EXCEPT !.maxSuffixComponents = maxSuffixComponents, !.changeCount = @ + 1]

\* type(keyLocator) == KeyLocator(keyLocator) compares the argument's type
\* with a new instance made from the argument.
setKeyLocator(self, keyLocator) ==
    [self EXCEPT
        !.keyLocator = set(@, IF TypeOf(keyLocator) = NewKeyLocator(keyLocator)
                              THEN keyLocator
                              ELSE NewKeyLocator(None)),
        !.changeCount = @ + 1]

\* type(exclude) == Exclude(exclude), likewise.
setExclude(self, exclude) ==
    [self EXCEPT
        !.exclude = set(@, IF TypeOf(exclude) = NewExclude(exclude)
                           THEN exclude
                           ELSE NewExclude(None)),
        !.changeCount = @ + 1]

\* A setChildSelector() with "=+ 1" for "+= 1".
setChildSelectorAssignsOne(self, childSelector) ==
    [self EXCEPT !.childSelector = childSelector, !.changeCount = 1]

setChildSelector(self, childSelector) ==
    [self EXCEPT !.childSelector = childSelector, !.changeCount = @ + 1]

\* A setMustBeFresh() that counts a change only when the flag changes.
setMustBeFreshCountsIfChanged(self, mustBeFresh) ==
    [self EXCEPT !.mustBeFresh = (IF Truthy(mustBeFresh) THEN TRUE ELSE FALSE),
                 !.changeCount = IF self.mustBeFresh = Truthy(mustBeFresh) THEN @ ELSE @ + 1]

setMustBeFresh(self, mustBeFresh) ==
    [self EXCEPT !.mustBeFresh = (IF Truthy(mustBeFresh) THEN TRUE ELSE FALSE),
                 !.changeCount = @ + 1]

\* Interest.setNonce(), its first two statements.
setNonceAssigned(self, nonce) ==
    [self EXCEPT !.nonce = IF TypeOf(nonce) = BlobClass THEN nonce ELSE Blob(nonce.v),
                 !.changeCount = @ + 1]

\* A setNonce() that reads _changeCount instead of calling getChangeCount().
setNonceReadsField(self) == [self EXCEPT !.getNonceChangeCount = self.changeCount]

\* Interest.setNonce(), its last statement.
setNonceObserved(self) ==
    LET c == getChangeCount(self)
    IN  [c.self EXCEPT !.getNonceChangeCount = c.ret]

setNonce(self, nonce) == setNonceObserved(setNonceAssigned(self, nonce))

\* A setScope() that forgets to raise the change count.
setScopeNoCount(self, scope) == [self EXCEPT !.scope = scope]

setScope(self, scope) ==
    [self EXCEPT !.scope = scope, !.changeCount = @ + 1]

setInterestLifetimeMilliseconds(self, interestLifetimeMilliseconds) ==
    [self EXCEPT
        !.interestLifetimeMilliseconds =
            IF interestLifetimeMilliseconds = None THEN None
            ELSE ToFloat(interestLifetimeMilliseconds),
        !.changeCount = @ + 1]

\* Interest.toUri(): one "if ...: selectors += ..." statement.
Selector(present, name, value) ==
    IF present THEN <<"&", name>> \o value ELSE <<>>

\* Interest.toUri(): the selectors of the six plain fields, in the code's order.
toUriFields(self) ==
    Selector(self.minSuffixComponents # None, "ndn.MinSuffixComponents=",
             Repr(self.minSuffixComponents))
    \o Selector(self.maxSuffixComponents # None, "ndn.MaxSuffixComponents=",
                Repr(self.maxSuffixComponents))
    \o Selector(self.childSelector # None, "ndn.ChildSelector=",
                Repr(self.childSelector))
    \o Selector(self.mustBeFresh, "ndn.MustBeFresh=true", <<>>)
    \o Selector(self.scope # None, "ndn.Scope=", Repr(self.scope))
    \o Selector(self.interestLifetimeMilliseconds # None, "ndn.InterestLifetime=",
                Repr(self.interestLifetimeMilliseconds))

\* Interest.toUri(): the nonce's selector, from the second getNonce() call g.
toUriNonceText(g) ==
    [self |-> g.self, text |-> Selector(TRUE, "ndn.Nonce=", ToEscapedString(g.ret.v))]

\* Interest.toUri(): the nonce's statement, from the first getNonce() call g.
toUriNonce(g) ==
    IF Len(g.ret.v) > 0 THEN toUriNonceText(getNonce(g.self))
    ELSE [self |-> g.self, text |-> <<>>]

\* Interest.toUri(): the exclude's statement.
toUriExclude(self) ==
    Selector(Len(getExclude(self).v) > 0, "ndn.Exclude=",
             ExcludeToUri(getExclude(self).v))

\* A toUri() that keeps the first "&".
toUriKeepsAmpersand(self, selectors) ==
    [self |-> self,
     ret |-> IF selectors # <<>>
             THEN NameToUri(getName(self).v) \o selectors
             ELSE NameToUri(getName(self).v)]

\* A toUri() that counts itself as a change.
toUriCountsAsChange(self, selectors) ==
    [self |-> [self EXCEPT !.changeCount = @ + 1],
     ret |-> IF selectors # <<>>
             THEN NameToUri(getName(self).v) \o <<"?">> \o Tail(selectors)
             ELSE NameToUri(getName(self).v)]

\* Interest.toUri(), its last statements: the name's URI, and the selectors
\* with "?" in place of the first "&".
toUriResult(self, selectors) ==
    [self |-> self,
     ret |-> IF selectors # <<>>
             THEN NameToUri(getName(self).v) \o <<"?">> \o Tail(selectors)
             ELSE NameToUri(getName(self).v)]

toUriFrom(self, n) ==
    toUriResult(n.self, toUriFields(self) \o n.text \o toUriExclude(n.self))

\* Interest.toUri()
toUri(self) == toUriFrom(self, toUriNonce(getNonce(self)))

\* ------------------------------------------------------------- history

\* What was called since the last setNonce: nothing that changes the Interest
\* ("clean"), one setter, direct sub-object mutations only, or more.
SinceAfter(kind) ==
    CASE since = "never" -> "never"
      [] since = "clean" -> (IF kind = "setter" THEN "oneSetter" ELSE "direct")
      [] since = "direct" /\ kind = "direct" -> "direct"
      [] OTHER -> "more"

\* A run names the arguments the operations are called with, the history it
\* keeps and the change count it stops at.
Keeps(run, h) == h \in run.hist

Called(run, op, arg, r) ==
    /\ lastOp' = IF Keeps(run, "op") THEN [op |-> op, arg |-> arg] ELSE lastOp
    /\ ret' = r
    /\ UNCHANGED <<order, codec, aes>>

Returned(op, v) == [op |-> op, v |-> v]
NoReturn == Returned("none", None)

\* What the history tells apart between two computations of the change count:
\* direct mutations of the name, and everything else that changes the Interest.
ObsLabel(which) == IF which = "name" THEN "name" ELSE "other"

\* Something changed the Interest: a setter, or a direct mutation of the
\* object that getName(), getKeyLocator() or getExclude() returned.
Changed(run, kind, which) ==
    /\ since' = IF Keeps(run, "nonce") THEN SinceAfter(kind) ELSE since
    /\ sinceObs' = IF Keeps(run, "obs") THEN sinceObs \cup {ObsLabel(which)} ELSE sinceObs
    /\ sinceMark' = IF Keeps(run, "mark") THEN (mark # <<>>) ELSE sinceMark
    /\ UNCHANGED <<nonceArg, obs, mark>>

\* The operation called getChangeCount(), which computed p'.changeCount.
Observed(run, before) ==
    IF Keeps(run, "obs")
    THEN /\ obs' = [prev |-> obs.cur, cur |-> <<p'.changeCount>>, seen |-> before]
         /\ sinceObs' = {}
    ELSE UNCHANGED <<obs, sinceObs>>

\* ------------------------------------------------------------- actions

InBound(run, self) == self.changeCount <= run.maxChangeCount

CallSetName(run) ==
    \E name \in run.names :
        /\ InBound(run, setName(p, name))
        /\ p' = setName(p, name)
        /\ Called(run, "setName", name, NoReturn)
        /\ Changed(run, "setter", "setter")

CallSetMinSuffixComponents(run) ==
    \E v \in run.ints :
        /\ InBound(run, setMinSuffixComponents(p, v))
        /\ p' = setMinSuffixComponents(p, v)
        /\ Called(run, "setMinSuffixComponents", v, NoReturn)
        /\ Changed(run, "setter", "setter")

CallSetMaxSuffixComponents(run) ==
    \E v \in run.ints :
        /\ InBound(run, setMaxSuffixComponents(p, v))
        /\ p' = setMaxSuffixComponents(p, v)
        /\ Called(run, "setMaxSuffixComponents", v, NoReturn)
        /\ Changed(run, "setter", "setter")

CallSetKeyLocator(run) ==
    \E keyLocator \in run.keyLocators :
        /\ InBound(run, setKeyLocator(p, keyLocator))
        /\ p' = setKeyLocator(p, keyLocator)
        /\ Called(run, "setKeyLocator", keyLocator, NoReturn)
        /\ Changed(run, "setter", "setter")

CallSetExclude(run) ==
    \E exclude \in run.excludes :
        /\ InBound(run, setExclude(p, exclude))
        /\ p' = setExclude(p, exclude)
        /\ Called(run, "setExclude", exclude, NoReturn)
        /\ Changed(run, "setter", "setter")

CallSetChildSelector(run) ==
    \E v \in run.ints :
        /\ InBound(run, setChildSelector(p, v))
        /\ p' = setChildSelector(p, v)
        /\ Called(run, "setChildSelector", v, NoReturn)
        /\ Changed(run, "setter", "setter")

CallSetMustBeFresh(run) ==
    \E v \in run.flags :
        /\ InBound(run, setMustBeFresh(p, v))
        /\ p' = setMustBeFresh(p, v)
        /\ Called(run, "setMustBeFresh", v, NoReturn)
        /\ Changed(run, "setter", "setter")

CallSetScope(run) ==
    \E v \in run.ints :
        /\ InBound(run, setScope(p, v))
        /\ p' = setScope(p, v)
        /\ Called(run, "setScope", v, NoReturn)
        /\ Changed(run, "setter", "setter")

CallSetInterestLifetimeMilliseconds(run) ==
    \E v \in run.lifetimes :
        /\ InBound(run, setInterestLifetimeMilliseconds(p, v))
        /\ p' = setInterestLifetimeMilliseconds(p, v)
        /\ Called(run, "setInterestLifetimeMilliseconds", v, NoReturn)
        /\ Changed(run, "setter", "setter")

CallSetNonce(run) ==
    \E nonce \in run.nonces :
        /\ InBound(run, setNonce(p, nonce))
        /\ p' = setNonce(p, nonce)
        /\ Called(run, "setNonce", nonce, NoReturn)
        /\ IF Keeps(run, "nonce")
           THEN nonceArg' = Blob(nonce.v) /\ since' = "clean"
           ELSE UNCHANGED <<nonceArg, since>>
        /\ Observed(run, sinceObs \cup {ObsLabel("setter")})
        /\ sinceMark' = IF Keeps(run, "mark") THEN (mark # <<>>) ELSE sinceMark
        /\ UNCHANGED mark

CallGetNonce(run) ==
    LET r == getNonce(p)
    IN  /\ InBound(run, r.self)
        /\ p' = r.self
        /\ Called(run, "getNonce", None, Returned("getNonce", r.ret))
        /\ Observed(run, sinceObs)
        /\ UNCHANGED <<nonceArg, since, mark, sinceMark>>

\* getChangeCount(); the history either keeps the value an earlier call
\* returned, to compare this call's with, or takes this call's value.
CallGetChangeCount(run) ==
    LET r == getChangeCount(p)
    IN  /\ InBound(run, r.self)
        /\ p' = r.self
        /\ Observed(run, sinceObs)
        /\ UNCHANGED <<nonceArg, since>>
        /\ IF Keeps(run, "mark")
           THEN \E keep \in BOOLEAN :
                  /\ Called(run, "getChangeCount", None,
                            [op |-> "getChangeCount", v |-> r.ret, compared |-> keep])
                  /\ IF keep THEN UNCHANGED <<mark, sinceMark>>
                             ELSE mark' = <<r.ret>> /\ sinceMark' = FALSE
           ELSE /\ Called(run, "getChangeCount", None,
                          [op |-> "getChangeCount", v |-> r.ret, compared |-> FALSE])
                /\ UNCHANGED <<mark, sinceMark>>

CallToUri(run) ==
    LET r == toUri(p)
    IN  /\ InBound(run, r.self)
        /\ p' = r.self
        /\ Called(run, "toUri", None, Returned("toUri", r.ret))
        /\ Observed(run, sinceObs)
        /\ UNCHANGED <<nonceArg, since, mark, sinceMark>>

CallGetter(run) ==
    \E getter \in Getters :
        LET r == GetterCall(p, getter)
        IN  /\ p' = r.self
            /\ Called(run, getter, None, Returned(getter, r.ret))
            /\ UNCHANGED <<nonceArg, since, obs, sinceObs, mark, sinceMark>>

\* interest.getName().append(component) and interest.getName().clear()
NameEdited(value, edit) ==
    IF edit = "append" THEN Append(value, "c") ELSE <<>>

MutateName(run) ==
    \E edit \in run.nameEdits :
        /\ getName(p).count < MaxSubCount
        /\ edit = "append" => Len(getName(p).v) < MaxNameLen
        /\ p' = [p EXCEPT !.name = Mutated(@, NameEdited(getName(p).v, edit))]
        /\ Called(run, "getName." \o edit, None, NoReturn)
        /\ Changed(run, "direct", "name")

\* interest.getKeyLocator().setType(type) and interest.getKeyLocator().clear()
KeyLocatorEdited(value, edit) ==
    IF edit = "setType" THEN "KEYNAME" ELSE "NONE"

MutateKeyLocator(run) ==
    \E edit \in run.keyLocatorEdits :
        /\ getKeyLocator(p).count < MaxSubCount
        /\ p' = [p EXCEPT !.keyLocator =
                    Mutated(@, KeyLocatorEdited(getKeyLocator(p).v, edit))]
        /\ Called(run, "getKeyLocator." \o edit, None, NoReturn)
        /\ Changed(run, "direct", "keyLocator")

\* interest.getExclude().appendComponent(component) and
\* interest.getExclude().clear()
ExcludeEdited(value, edit) ==
    IF edit = "appendComponent" THEN Append(value, "x") ELSE <<>>

MutateExclude(run) ==
    \E edit \in run.excludeEdits :
        /\ getExclude(p).count < MaxSubCount
        /\ edit = "appendComponent" => Len(getExclude(p).v) < MaxExcludeLen
        /\ p' = [p EXCEPT !.exclude = Mutated(@, ExcludeEdited(getExclude(p).v, edit))]
        /\ Called(run, "getExclude." \o edit, None, NoReturn)
        /\ Changed(run, "direct", "exclude")

\* The history before the first call.
NoHistory ==
    /\ lastOp = [op |-> "__init__", arg |-> None]
    /\ ret = NoReturn
    /\ nonceArg = None
    /\ since = "never"
    /\ obs = [prev |-> <<>>, cur |-> <<>>, seen |-> {}]
    /\ sinceObs = {}
    /\ mark = <<>>
    /\ sinceMark = FALSE

NoOrder ==
    [q |-> None, todoP |-> {}, todoQ |-> {}, seqP |-> <<>>, seqQ |-> <<>>,
     uriP |-> <<>>, uriQ |-> <<>>, done |-> FALSE]

\* No wire format in use, and no AesAlgorithm call.
NoCodec == [call |-> "none"]
NoAes == [stage |-> "none"]

Construct(run) ==
    /\ \E name \in run.initNames : p = InterestInit(name)
    /\ NoHistory
    /\ order = NoOrder
    /\ codec = NoCodec
    /\ aes = NoAes

Step(run) ==
    \/ CallSetName(run)
    \/ CallSetMinSuffixComponents(run)
    \/ CallSetMaxSuffixComponents(run)
    \/ CallSetKeyLocator(run)
    \/ CallSetExclude(run)
    \/ CallSetChildSelector(run)
    \/ CallSetMustBeFresh(run)
    \/ CallSetNonce(run)
    \/ CallSetScope(run)
    \/ CallSetInterestLifetimeMilliseconds(run)
    \/ CallGetNonce(run)
    \/ CallGetChangeCount(run)
    \/ CallToUri(run)
    \/ MutateName(run)
    \/ MutateKeyLocator(run)
    \/ MutateExclude(run)

\* ------------------------------------------------------------- the runs

\* The tracking runs: what the change count and the nonce do.  The tracking
\* code never reads a field's value or a sub-object's content, so these runs
\* keep the contents fixed (mustBeFresh apart) and vary the counters.
TrackRun(hist) ==
    [ints |-> {None},
     lifetimes |-> {None},
     flags |-> {PyBool(TRUE), PyBool(FALSE)},
     initNames |-> {None},
     names |-> {None} \cup {Name(c, <<>>) : c \in SubCounts},
     keyLocators |-> {None, KeyLocator(1, "KEYNAME")},
     excludes |-> {None, Exclude(1, <<"x">>)},
     nonces |-> NonceArgs,
     nameEdits |-> {"clear"},
     keyLocatorEdits |-> {"clear"},
     excludeEdits |-> {"clear"},
     hist |-> hist,
     maxChangeCount |-> MaxChangeCount]

NonceRun == TrackRun({"nonce"})
Init == Construct(NonceRun)
Next == Step(NonceRun)
Spec == Init /\ [][Next]_vars

\* The run that compares what getChangeCount() returns with what an earlier
\* call returned.
CountRun == [TrackRun({"mark"}) EXCEPT !.nonces = {Blob(<<1>>)}, !.flags = {PyBool(FALSE)}]
InitCount == Construct(CountRun)
NextCount == Step(CountRun)
SpecCount == InitCount /\ [][NextCount]_vars

\* The run that keeps what was called between two computations of the change
\* count.
PollRun == [TrackRun({"obs"}) EXCEPT !.nonces = {Blob(<<1>>)}, !.flags = {PyBool(FALSE)}]
InitPoll == Construct(PollRun)
NextPoll == Step(PollRun)
SpecPoll == InitPoll /\ [][NextPoll]_vars

\* The call run: every method, the plain getters among them, with the last
\* call kept.
CallRun ==
    [TrackRun({"op"}) EXCEPT
        !.nonces = {Blob(<<1>>)},
        !.names = {None, Name(1, <<>>)},
        !.keyLocators = {None},
        !.excludes = {None},
        !.maxChangeCount = MaxChangeCount - 1]
InitCall == Construct(CallRun)
NextCall == Step(CallRun) \/ CallGetter(CallRun)
SpecCall == InitCall /\ [][NextCall]_vars

\* The URI run: every combination of the fields toUri() reads, each built by
\* the calls that set it, with a nonce that is absent, stale (a setter was
\* called after setNonce) or valid; then toUri() and the calls that replace
\* the exclude and the key locator or mutate the exclude.
UriRun ==
    [TrackRun({"op"}) EXCEPT
        !.excludes = ExcludeArgs,
        !.keyLocators = KeyLocatorArgs,
        !.excludeEdits = {"appendComponent", "clear"},
        !.maxChangeCount = UriMaxChangeCount]

Built(name, ints, fresh, lifetime, nonce, excluded) ==
    LET b0 == InterestInit(name)
        b1 == IF excluded
              THEN [b0 EXCEPT !.exclude = Mutated(@, ExcludeEdited(<<>>, "appendComponent"))]
              ELSE b0
        b2 == IF nonce = "stale" THEN setNonce(b1, Blob(<<1>>)) ELSE b1
        b3 == setMinSuffixComponents(b2, ints[1])
        b4 == setMaxSuffixComponents(b3, ints[2])
        b5 == setChildSelector(b4, ints[3])
        b6 == setMustBeFresh(b5, fresh)
        b7 == setScope(b6, ints[4])
        b8 == setInterestLifetimeMilliseconds(b7, lifetime)
    IN  IF nonce = "valid" THEN setNonce(b8, ByteArray(<<2, 1>>)) ELSE b8

InitUri ==
    /\ \E name \in InitNameArgs, ints \in [1 .. 4 -> IntArgs],
          fresh \in MustBeFreshArgs, lifetime \in LifetimeArgs,
          nonce \in {"none", "stale", "valid"}, excluded \in BOOLEAN :
            p = Built(name, ints, fresh, lifetime, nonce, excluded)
    /\ NoHistory
    /\ order = NoOrder
    /\ codec = NoCodec
    /\ aes = NoAes

NextUri ==
    \/ CallToUri(UriRun)
    \/ CallSetExclude(UriRun)
    \/ CallSetKeyLocator(UriRun)
    \/ MutateExclude(UriRun)

SpecUri == InitUri /\ [][NextUri]_vars

\* The order run: two Interests in the same state, and a set of setter calls,
\* one field each, that each Interest gets in an order of its own; then
\* toUri() of both.
OrderCalls ==
    {[op |-> "setName", arg |-> PyStr("a")],
     [op |-> "setMinSuffixComponents", arg |-> PyInt(1)],
     [op |-> "setMaxSuffixComponents", arg |-> PyInt(2)],
     [op |-> "setKeyLocator", arg |-> KeyLocator(0, "KEYNAME")],
     [op |-> "setExclude", arg |-> Exclude(0, <<"x">>)],
     [op |-> "setChildSelector", arg |-> PyInt(1)],
     [op |-> "setMustBeFresh", arg |-> PyBool(TRUE)],
     [op |-> "setNonce", arg |-> Blob(<<1>>)],
     [op |-> "setScope", arg |-> PyInt(2)],
     [op |-> "setInterestLifetimeMilliseconds", arg |-> PyInt(4000)]}

Apply(self, call) ==
    CASE call.op = "setName" -> setName(self, call.arg)
      [] call.op = "setMinSuffixComponents" -> setMinSuffixComponents(self, call.arg)
      [] call.op = "setMaxSuffixComponents" -> setMaxSuffixComponents(self, call.arg)
      [] call.op = "setKeyLocator" -> setKeyLocator(self, call.arg)
      [] call.op = "setExclude" -> setExclude(self, call.arg)
      [] call.op = "setChildSelector" -> setChildSelector(self, call.arg)
      [] call.op = "setMustBeFresh" -> setMustBeFresh(self, call.arg)
      [] call.op = "setNonce" -> setNonce(self, call.arg)
      [] call.op = "setScope" -> setScope(self, call.arg)
      [] call.op = "setInterestLifetimeMilliseconds" ->
            setInterestLifetimeMilliseconds(self, call.arg)

\* The states both Interests start in: new, or with a nonce already set.
OrderStarts == {InterestInit(None), setNonce(InterestInit(PyStr("a")), Blob(<<2>>))}

InitOrder ==
    /\ \E start \in OrderStarts, calls \in SUBSET OrderCalls :
        /\ Cardinality(calls) <= MaxCalls
        /\ p = start
        /\ order = [NoOrder EXCEPT !.q = start, !.todoP = calls, !.todoQ = calls]
    /\ NoHistory
    /\ codec = NoCodec
    /\ aes = NoAes

ApplyToFirst ==
    /\ \E call \in order.todoP :
        /\ p' = Apply(p, call)
        /\ order' = [order EXCEPT !.todoP = @ \ {call}, !.seqP = Append(@, call.op)]
    /\ UNCHANGED <<lastOp, ret, nonceArg, since, obs, sinceObs, mark, sinceMark,
                   codec, aes>>

ApplyToSecond ==
    /\ order.todoP = {}
    /\ \E call \in order.todoQ :
        order' = [order EXCEPT !.q = Apply(@, call), !.todoQ = @ \ {call},
                               !.seqQ = Append(@, call.op)]
    /\ UNCHANGED <<p, lastOp, ret, nonceArg, since, obs, sinceObs, mark, sinceMark,
                   codec, aes>>

BothToUri ==
    /\ order.todoP = {}
    /\ order.todoQ = {}
    /\ ~order.done
    /\ p' = toUri(p).self
    /\ order' = [order EXCEPT !.q = toUri(@).self, !.uriP = toUri(p).ret,
                              !.uriQ = toUri(order.q).ret, !.done = TRUE]
    /\ UNCHANGED <<lastOp, ret, nonceArg, since, obs, sinceObs, mark, sinceMark,
                   codec, aes>>

NextOrder ==
    \/ ApplyToFirst
    \/ ApplyToSecond
    \/ BothToUri

SpecOrder == InitOrder /\ [][NextOrder]_vars

\* ------------------------------------------------------------- wire format

\* The stub wire format: encodeInterest reads every field through the
\* Interest's getters, and decodeInterest writes the fields back through the
\* setters, in the order that the wire format object carries.
StubWireFormat(setters) == [type |-> "WireFormat", order |-> setters]

FieldSetters ==
    <<"setName", "setMinSuffixComponents", "setMaxSuffixComponents", "setKeyLocator",
      "setExclude", "setChildSelector", "setMustBeFresh", "setScope",
      "setInterestLifetimeMilliseconds">>

RECURSIVE Reversed(_)
Reversed(seq) == IF seq = <<>> THEN <<>> ELSE Append(Reversed(Tail(seq)), Head(seq))

DecodeOrders ==
    {SubSeq(FieldSetters, 1, 4) \o <<"setNonce">> \o SubSeq(FieldSetters, 5, 9),
     FieldSetters \o <<"setNonce">>,
     Reversed(FieldSetters) \o <<"setNonce">>}

WireFormats == {StubWireFormat(setters) : setters \in DecodeOrders}

\* What the stub encodes: every field, as the getters return it.
EncodedFields(self, nonce) ==
    [name |-> getName(self).v,
     minSuffixComponents |-> getMinSuffixComponents(self),
     maxSuffixComponents |-> getMaxSuffixComponents(self),
     keyLocator |-> getKeyLocator(self).v,
     exclude |-> getExclude(self).v,
     childSelector |-> getChildSelector(self),
     mustBeFresh |-> getMustBeFresh(self),
     scope |-> getScope(self),
     interestLifetimeMilliseconds |-> getInterestLifetimeMilliseconds(self),
     nonce |-> nonce.v]

\* WireFormat.encodeInterest(interest), from the getNonce() call g on.
encodeInterestFrom(g) ==
    [self |-> g.self, ret |-> Blob([ok |-> TRUE, fields |-> EncodedFields(g.self, g.ret)])]

encodeInterest(wireFormat, self) == encodeInterestFrom(getNonce(self))

\* The setter call that writes one field of the decoded input.
DecodeCall(fields, op) ==
    [op |-> op,
     arg |-> CASE op = "setName" -> Name(0, fields.name)
               [] op = "setMinSuffixComponents" -> fields.minSuffixComponents
               [] op = "setMaxSuffixComponents" -> fields.maxSuffixComponents
               [] op = "setKeyLocator" -> KeyLocator(0, fields.keyLocator)
               [] op = "setExclude" -> Exclude(0, fields.exclude)
               [] op = "setChildSelector" -> fields.childSelector
               [] op = "setMustBeFresh" -> fields.mustBeFresh
               [] op = "setNonce" -> Blob(fields.nonce)
               [] op = "setScope" -> fields.scope
               [] op = "setInterestLifetimeMilliseconds" ->
                    fields.interestLifetimeMilliseconds]

RECURSIVE DecodeInto(_, _, _)
DecodeInto(self, fields, setters) ==
    IF setters = <<>> THEN self
    ELSE DecodeInto(Apply(self, DecodeCall(fields, Head(setters))), fields,
                    Tail(setters))

\* WireFormat.decodeInterest(interest, input): a decoding error on an input
\* that is no whole encoding, with the Interest as it was; else every field
\* written.
decodeInterest(wireFormat, self, input) ==
    IF input.v.ok
    THEN [self |-> DecodeInto(self, input.v.fields, wireFormat.order), raised |-> FALSE]
    ELSE [self |-> self, raised |-> TRUE]

\* An encoding cut short.
Truncated(input) == [input EXCEPT !.v.ok = FALSE]

\* A wire format taken from the registry as it was when the Interest's
\* module was loaded.
WireFormatAtLoad(wireFormat, registry) ==
    IF wireFormat = None THEN registry.initial ELSE wireFormat

\* "if wireFormat == None: wireFormat = WireFormat.getDefaultWireFormat()"
WireFormatOrDefault(wireFormat, registry) ==
    IF wireFormat = None THEN registry.default ELSE wireFormat

\* "return wireFormat.encodeInterest(self)": e is what encodeInterest did.
Encoded(e, wireFormat) == [self |-> e.self, ret |-> e.ret, used |-> wireFormat]

wireEncodeWith(self, wireFormat) ==
    Encoded(encodeInterest(wireFormat, self), wireFormat)

\* Interest.wireEncode(wireFormat)
wireEncode(self, wireFormat, registry) ==
    wireEncodeWith(self, WireFormatOrDefault(wireFormat, registry))

\* input.buf() if isinstance(input, Blob) else input
DecodeBuffer(input) == IF input.type = "Blob" THEN ByteArray(input.v) ELSE input

\* A wireDecode() that resets the Interest before it decodes.
\* A wireDecode() that counts the decoding as one more change.
DecodedCountsAsChange(d, wireFormat) ==
    [self |-> [d.self EXCEPT !.changeCount = @ + 1], raised |-> d.raised,
     used |-> wireFormat]

\* "wireFormat.decodeInterest(self, decodeBuffer)": d is what decodeInterest did.
Decoded(d, wireFormat) == [self |-> d.self, raised |-> d.raised, used |-> wireFormat]

\* A wireDecode() that resets the Interest before it decodes.
wireDecodeResetsFirst(self, input, wireFormat) ==
    Decoded(decodeInterest(wireFormat, InterestInit(None), DecodeBuffer(input)),
            wireFormat)

wireDecodeWith(self, input, wireFormat) ==
    Decoded(decodeInterest(wireFormat, self, DecodeBuffer(input)), wireFormat)

\* Interest.wireDecode(input, wireFormat)
wireDecode(self, input, wireFormat, registry) ==
    wireDecodeWith(self, input, WireFormatOrDefault(wireFormat, registry))

\* What a caller can read of an Interest: every field, and the nonce as
\* getNonce() returns it.
Visible(self) == EncodedFields(self, getNonce(self).ret)

Registry == [default |-> codec.default, initial |-> codec.initial]

\* WireFormat.setDefaultWireFormat(wireFormat)
SetDefaultWireFormat(run) ==
    \E wireFormat \in WireFormats :
        /\ codec' = [codec EXCEPT !.default = wireFormat]
        /\ lastOp' = [op |-> "setDefaultWireFormat", arg |-> None]
        /\ ret' = NoReturn
        /\ UNCHANGED <<p, nonceArg, since, obs, sinceObs, mark, sinceMark, order, aes>>

CallWireEncode(run) ==
    \E wireFormat \in run.wireFormats :
        LET r == wireEncode(p, wireFormat, Registry)
        IN  /\ p' = r.self
            /\ codec' = [codec EXCEPT !.call = "wireEncode", !.given = wireFormat,
                                      !.used = r.used, !.usedBefore = codec.used,
                                      !.wire = r.ret, !.encoded = Visible(r.self)]
            /\ lastOp' = [op |-> "wireEncode", arg |-> None]
            /\ ret' = NoReturn
            /\ UNCHANGED <<nonceArg, since, obs, sinceObs, mark, sinceMark, order, aes>>

\* wireDecode of the last encoding, as a Blob or as its buffer, whole or cut
\* short, into this Interest or into a new one.
CallWireDecode(run) ==
    /\ codec.wire # None
    /\ \E wireFormat \in run.wireFormats,
          input \in {codec.wire, DecodeBuffer(codec.wire), Truncated(codec.wire)},
          target \in {"self", "new"} :
        LET before == IF target = "self" THEN p ELSE InterestInit(None)
            r == wireDecode(before, input, wireFormat, Registry)
        IN  /\ p' = IF target = "self" THEN r.self ELSE p
            /\ codec' = [codec EXCEPT !.call = "wireDecode", !.given = wireFormat,
                                      !.used = r.used, !.usedBefore = codec.used,
                                      !.input = input, !.target = target,
                                      !.before = before, !.after = r.self,
                                      !.raised = r.raised]
            /\ lastOp' = [op |-> "wireDecode", arg |-> None]
            /\ ret' = NoReturn
            /\ UNCHANGED <<nonceArg, since, obs, sinceObs, mark, sinceMark, order, aes>>

\* The codec run: an Interest with each kind of field set or not and the
\* default wire format; the key locator may be given a type, then the Interest
\* is encoded, then its scope may be set, then the encoding is decoded; the
\* default wire format may be changed before each of the two calls, which
\* name a wire format or none.
FirstWireFormat == StubWireFormat(FieldSetters \o <<"setNonce">>)
LastWireFormat == StubWireFormat(Reversed(FieldSetters) \o <<"setNonce">>)

CodecRun ==
    [ints |-> {PyInt(2)},
     keyLocatorEdits |-> {"setType"},
     wireFormats |-> {None, LastWireFormat},
     hist |-> {"op"},
     maxChangeCount |-> CodecMaxChangeCount]

InitCodec ==
    /\ \E name \in InitNameArgs, full \in BOOLEAN,
          nonce \in {"none", "stale", "valid"}, excluded \in BOOLEAN :
            p = Built(name, [i \in 1 .. 4 |-> IF full THEN PyInt(1) ELSE None],
                      PyBool(full), IF full THEN PyInt(4000) ELSE None, nonce, excluded)
    /\ NoHistory
    /\ order = NoOrder
    /\ codec = [call |-> "none", default |-> FirstWireFormat, initial |-> FirstWireFormat,
                given |-> None, used |-> None, usedBefore |-> None, wire |-> None,
                encoded |-> None, input |-> None, target |-> "none", before |-> None,
                after |-> None, raised |-> FALSE]
    /\ aes = NoAes

NextCodec ==
    \/ codec.call = "none" /\ MutateKeyLocator(CodecRun)
    \/ codec.call # "wireDecode" /\ SetDefaultWireFormat(CodecRun)
    \/ codec.call = "none" /\ CallWireEncode(CodecRun)
    \/ codec.call = "wireEncode" /\ CallSetScope(CodecRun)
    \/ codec.call = "wireEncode" /\ CallWireDecode(CodecRun)

SpecCodec == InitCodec /\ [][NextCodec]_vars

\* ------------------------------------------------------- AesAlgorithm

\* "padLength = 16 - (plainData.size() % 16)": the AES block size.
BlockSize == 16
\* The longest plain data of a run: two whole blocks and one byte more.
MaxPlainLen == 33

\* EncryptAlgorithmType
AesEcb == "AesEcb"
AesCbc == "AesCbc"
EncryptParams(algorithmType, initialVector) ==
    [type |-> "EncryptParams", algorithmType |-> algorithmType,
     initialVector |-> initialVector]

\* Encryptor.toPyCrypto(blob): the bytes of the Blob as PyCrypto takes them.
toPyCrypto(blob) == blob.v

RECURSIVE XorBits(_, _, _)
XorBits(a, b, n) ==
    IF n = 0 THEN 0
    ELSE ((a + b) % 2) + 2 * XorBits(a \div 2, b \div 2, n - 1)

XorBlock(x, y) == [i \in 1 .. BlockSize |-> XorBits(x[i], y[i], 8)]

\* The block cipher under a key: a permutation of the 16-byte blocks that
\* depends on the key, and its inverse.
EncryptBlock(key, block) ==
    [i \in 1 .. BlockSize |-> (block[BlockSize + 1 - i] + key[i]) % 256]
DecryptBlock(key, block) ==
    [i \in 1 .. BlockSize |->
        (block[BlockSize + 1 - i] + 256 - key[BlockSize + 1 - i]) % 256]

\* AES.new(key, mode[, IV]): a cipher object; in CBC mode it keeps the
\* chaining block from one call to the next.
MODE_ECB == "MODE_ECB"
MODE_CBC == "MODE_CBC"
AESNew(key, mode, iv) == [type |-> "AESCipher", key |-> key, mode |-> mode, iv |-> iv]

CipherReturn(cipher, bytes) == [cipher |-> cipher, ret |-> bytes, raised |-> FALSE]
\* ValueError: the input is not a multiple of the block size in length.
CipherRaise(cipher) == [cipher |-> cipher, ret |-> <<>>, raised |-> TRUE]

Chained(cipher, block) ==
    IF cipher.mode = MODE_CBC THEN XorBlock(block, cipher.iv) ELSE block

RECURSIVE EncryptBlocks(_, _, _)
EncryptedBlock(cipher, rest, out, c) ==
    EncryptBlocks([cipher EXCEPT !.iv = IF cipher.mode = MODE_CBC THEN c ELSE cipher.iv],
                  rest, out \o c)
EncryptBlocks(cipher, data, out) ==
    IF data = <<>> THEN CipherReturn(cipher, out)
    ELSE EncryptedBlock(cipher, SubSeq(data, BlockSize + 1, Len(data)), out,
                        EncryptBlock(cipher.key, Chained(cipher, SubSeq(data, 1, BlockSize))))

\* cipher.encrypt(data)
CipherEncrypt(cipher, data) ==
    IF Len(data) % BlockSize # 0 THEN CipherRaise(cipher)
    ELSE EncryptBlocks(cipher, data, <<>>)

RECURSIVE DecryptBlocks(_, _, _)
DecryptedBlock(cipher, rest, out, c) ==
    DecryptBlocks([cipher EXCEPT !.iv = IF cipher.mode = MODE_CBC THEN c ELSE cipher.iv],
                  rest, out \o Chained(cipher, DecryptBlock(cipher.key, c)))
DecryptBlocks(cipher, data, out) ==
    IF data = <<>> THEN CipherReturn(cipher, out)
    ELSE DecryptedBlock(cipher, SubSeq(data, BlockSize + 1, Len(data)), out,
                        SubSeq(data, 1, BlockSize))

\* cipher.decrypt(data)
CipherDecrypt(cipher, data) ==
    IF Len(data) % BlockSize # 0 THEN CipherRaise(cipher)
    ELSE DecryptBlocks(cipher, data, <<>>)

\* The cipher both methods make from params.getAlgorithmType().
NewCipher(keyBits, params) ==
    IF params.algorithmType = AesEcb
    THEN AESNew(toPyCrypto(keyBits), MODE_ECB, <<>>)
    ELSE AESNew(toPyCrypto(keyBits), MODE_CBC, toPyCrypto(params.initialVector))

\* "pad = chr(padLength) * padLength"
Pad(padLength) == [i \in 1 .. padLength |-> padLength]

\* What a call of encrypt or decrypt did: the Blob it returned or that it
\* raised, the padding length and the length of each cipher call's input.
AesReturn(bytes, padLength, calls) ==
    [ret |-> Blob(bytes), raised |-> FALSE, padLength |-> padLength, calls |-> calls]
AesRaise(padLength, calls) ==
    [ret |-> None, raised |-> TRUE, padLength |-> padLength, calls |-> calls]

\* "cipher.encrypt(Encryptor.toPyCrypto(plainData)) + cipher.encrypt(pad)":
\* first is what the first cipher call did, second the second.
encryptSecond(first, second, padLength, calls) ==
    IF second.raised THEN AesRaise(padLength, calls)
    ELSE AesReturn(first.ret \o second.ret, padLength, calls)

encryptFirst(first, plain, pad, padLength) ==
    IF first.raised THEN AesRaise(padLength, <<Len(plain)>>)
    ELSE encryptSecond(first, CipherEncrypt(first.cipher, pad), padLength,
                       <<Len(plain), Len(pad)>>)

encryptPadded(cipher, plain, padLength) ==
    encryptFirst(CipherEncrypt(cipher, plain), plain, Pad(padLength), padLength)

\* AesAlgorithm.encrypt(keyBits, plainData, params)
encrypt(keyBits, plainData, params) ==
    encryptPadded(NewCipher(keyBits, params), toPyCrypto(plainData),
                  BlockSize - (Len(plainData.v) % BlockSize))

\* "resultWithPad[:-padLength]"
WithoutLast(bytes, n) ==
    IF n = 0 \/ n >= Len(bytes) THEN <<>> ELSE SubSeq(bytes, 1, Len(bytes) - n)

\* "padLength = resultWithPad[-1]", an IndexError when there is no byte.
decryptUnpadded(result, calls) ==
    IF result.raised \/ result.ret = <<>> THEN AesRaise(0, calls)
    ELSE AesReturn(WithoutLast(result.ret, result.ret[Len(result.ret)]),
                   result.ret[Len(result.ret)], calls)

\* AesAlgorithm.decrypt(keyBits, encryptedData, params)
decrypt(keyBits, encryptedData, params) ==
    decryptUnpadded(CipherDecrypt(NewCipher(keyBits, params), toPyCrypto(encryptedData)),
                    <<Len(encryptedData.v)>>)

\* The keys, the initial vector and the plain data of the runs.
KeyBits == {Blob([i \in 1 .. BlockSize |-> i]),
            Blob([i \in 1 .. BlockSize |-> 255 - 3 * i])}
InitialVector == Blob([i \in 1 .. BlockSize |-> (11 * i) % 256])
AesParams == {EncryptParams(AesEcb, None), EncryptParams(AesCbc, InitialVector)}
\* Plain data of each length: bytes that all look like a padding byte, or
\* bytes that all differ.
PlainData(len, first, step) == Blob([i \in 1 .. len |-> (first + (i - 1) * step) % 256])
PlainDatas ==
    {PlainData(len, BlockSize, 0) : len \in 0 .. MaxPlainLen}
        \cup {PlainData(len, 1, 37) : len \in 0 .. MaxPlainLen}

InitAes ==
    /\ p = InterestInit(None)
    /\ NoHistory
    /\ order = NoOrder
    /\ codec = NoCodec
    /\ \E keyBits \in KeyBits, params \in AesParams, plainData \in PlainDatas :
        aes = [stage |-> "input", keyBits |-> keyBits, params |-> params,
               plainData |-> plainData, padLength |-> 0, calls |-> <<>>,
               raised |-> FALSE, encrypted |-> None, decrypted |-> None]

CallEncrypt ==
    /\ aes.stage = "input"
    /\ LET r == encrypt(aes.keyBits, aes.plainData, aes.params)
       IN  aes' = [aes EXCEPT !.stage = "encrypted", !.padLength = r.padLength,
                              !.calls = r.calls, !.raised = r.raised,
                              !.encrypted = r.ret]
    /\ UNCHANGED <<p, lastOp, ret, nonceArg, since, obs, sinceObs, mark, sinceMark,
                   order, codec>>

\* decrypt of what encrypt returned, with the same key and params.
CallDecrypt ==
    /\ aes.stage = "encrypted"
    /\ ~aes.raised
    /\ LET r == decrypt(aes.keyBits, aes.encrypted, aes.params)
       IN  aes' = [aes EXCEPT !.stage = "decrypted", !.raised = r.raised,
                              !.decrypted = r.ret]
    /\ UNCHANGED <<p, lastOp, ret, nonceArg, since, obs, sinceObs, mark, sinceMark,
                   order, codec>>

NextAes == CallEncrypt \/ CallDecrypt

SpecAes == InitAes /\ [][NextAes]_vars

\* ------------------------------------------------------------- claims

\* C1: after setNonce(b) with a non-empty b and then one call of a setter
\* other than setNonce, whatever its argument, getNonce() returns an empty
\* buffer.
C1_NonceClearedAfterSetter ==
    (ret.op = "getNonce" /\ since = "oneSetter" /\ Len(nonceArg.v) > 0)
        => Len(ret.v.v) = 0

C1_Witness ==
    /\ ret.op = "getNonce"
    /\ since = "oneSetter"
    /\ Len(nonceArg.v) > 0
    /\ Len(ret.v.v) = 0

\* C2: after setNonce(b), whatever came before it, every getNonce() called
\* before the next setter call or direct sub-object mutation returns b.
C2_NonceKeptUntilChange ==
    (ret.op = "getNonce" /\ since = "clean") => ret.v = nonceArg

C2_Witness ==
    /\ ret.op = "getNonce"
    /\ since = "clean"
    /\ ret.v = nonceArg
    /\ Len(nonceArg.v) > 0
    /\ getExclude(p).count > 0

\* C3: after setNonce(b) with a non-empty b, when the caller has mutated the
\* name, the key locator or the exclude directly, once or more, and called no
\* setter, getNonce() returns an empty buffer.
C3_NonceClearedAfterDirectMutation ==
    (ret.op = "getNonce" /\ since = "direct" /\ Len(nonceArg.v) > 0)
        => Len(ret.v.v) = 0

C3_Witness ==
    /\ ret.op = "getNonce"
    /\ since = "direct"
    /\ Len(nonceArg.v) > 0
    /\ Len(ret.v.v) = 0
    /\ getExclude(p).count = 2

\* C4: a direct mutation of the name, with no setter call and no other
\* mutation since the change count was last computed, is detected exactly
\* once: the getChangeCount() or getNonce() call after it computes the last
\* computed change count plus one, and a further call with nothing in between
\* computes the same value again.
C4_NameMutationDetectedOnce ==
    (ret.op \in {"getChangeCount", "getNonce"} /\ obs.prev # <<>>)
        => /\ obs.seen = {"name"} => obs.cur[1] = obs.prev[1] + 1
           /\ obs.seen = {} => obs.cur = obs.prev

C4_Witness ==
    /\ ret.op \in {"getChangeCount", "getNonce"}
    /\ obs.prev # <<>>
    /\ obs.seen = {"name"}
    /\ obs.cur[1] = obs.prev[1] + 1
    /\ getName(p).count = 2

\* C5: a getChangeCount() call returns what the getChangeCount() call before
\* it returned when no setter was called and no sub-object was mutated
\* directly between the two.
C5_GetChangeCountIdempotent ==
    (ret.op = "getChangeCount" /\ ret.compared /\ mark # <<>> /\ ~sinceMark)
        => ret.v = mark[1]

C5_Witness ==
    /\ ret.op = "getChangeCount"
    /\ ret.compared
    /\ mark # <<>>
    /\ ~sinceMark
    /\ ret.v = mark[1]
    /\ ret.v > 0

\* C6: no step lowers the change count, and a getChangeCount() call never
\* returns less than an earlier getChangeCount() call returned.
C6_ChangeCountNonDecreasing ==
    [][/\ p'.changeCount >= p.changeCount
       /\ (ret'.op = "getChangeCount" /\ ret'.compared /\ mark' # <<>>)
            => ret'.v >= mark'[1]]_vars

C6_Witness ==
    /\ ret.op = "getChangeCount"
    /\ ret.compared
    /\ mark # <<>>
    /\ ret.v >= mark[1] + 2

\* C7: a getChangeCount() call returns strictly more than an earlier
\* getChangeCount() call returned when a setter was called or a sub-object
\* was mutated directly between the two.
C7_NoMutationMissed ==
    (ret.op = "getChangeCount" /\ ret.compared /\ mark # <<>> /\ sinceMark)
        => ret.v > mark[1]

C7_Witness ==
    /\ ret.op = "getChangeCount"
    /\ ret.compared
    /\ mark # <<>>
    /\ sinceMark
    /\ ret.v = mark[1] + 1

\* C8: two Interests built from the same state by the same set of setter
\* calls, setNonce among them, applied in different orders, have the same
\* toUri().  As stated this fails: a setter called after setNonce makes the
\* nonce stale, so the order decides whether the URI has an ndn.Nonce segment.
C8_SameCallsSameUri ==
    order.done => order.uriP = order.uriQ

OrderLast(seq) == IF seq = <<>> THEN "none" ELSE seq[Len(seq)]

\* C8, amended: two Interests built from the same state by the same set of
\* setter calls, one call for a field, have the same toUri() when setNonce is
\* the last call of both orders or of neither.
C8_SameUriWhenNonceLastInBothOrNeither ==
    (/\ order.done
     /\ (OrderLast(order.seqP) = "setNonce") <=> (OrderLast(order.seqQ) = "setNonce"))
    => order.uriP = order.uriQ

C8_Witness ==
    /\ order.done
    /\ Len(order.seqP) = MaxCalls
    /\ order.seqP # order.seqQ
    /\ OrderLast(order.seqP) = "setNonce"
    /\ OrderLast(order.seqQ) = "setNonce"
    /\ order.uriP = order.uriQ
    /\ \E i \in DOMAIN order.uriP : order.uriP[i] = "ndn.Nonce="

\* C9: right after setExclude(e) with an Exclude e, getExclude() has e's
\* content, and right after setKeyLocator(k) with a KeyLocator k,
\* getKeyLocator() has k's content.  The code stores an empty default instead.
C9_SetterKeepsContent ==
    /\ (lastOp.op = "setExclude" /\ lastOp.arg.type = "Exclude")
        => getExclude(p).v = lastOp.arg.v
    /\ (lastOp.op = "setKeyLocator" /\ lastOp.arg.type = "KeyLocator")
        => getKeyLocator(p).v = lastOp.arg.v

\* The fields of the Interest toUri() has just returned from, in the URI's
\* order, each with whether it is present and the text of its segment.
UriFields ==
    <<[present |-> p.minSuffixComponents # None,
       text |-> <<"ndn.MinSuffixComponents=">> \o Repr(p.minSuffixComponents)],
      [present |-> p.maxSuffixComponents # None,
       text |-> <<"ndn.MaxSuffixComponents=">> \o Repr(p.maxSuffixComponents)],
      [present |-> p.childSelector # None,
       text |-> <<"ndn.ChildSelector=">> \o Repr(p.childSelector)],
      [present |-> p.mustBeFresh,
       text |-> <<"ndn.MustBeFresh=true">>],
      [present |-> p.scope # None,
       text |-> <<"ndn.Scope=">> \o Repr(p.scope)],
      [present |-> p.interestLifetimeMilliseconds # None,
       text |-> <<"ndn.InterestLifetime=">> \o Repr(p.interestLifetimeMilliseconds)],
      [present |-> p.getNonceChangeCount = p.changeCount /\ Len(p.nonce.v) > 0,
       text |-> <<"ndn.Nonce=">> \o ToEscapedString(p.nonce.v)],
      [present |-> Len(getExclude(p).v) > 0,
       text |-> <<"ndn.Exclude=">> \o ExcludeToUri(getExclude(p).v)]>>

IsPresent(field) == field.present

RECURSIVE JoinSegments(_, _)
JoinSegments(fields, separator) ==
    IF fields = <<>> THEN <<>>
    ELSE <<separator>> \o Head(fields).text \o JoinSegments(Tail(fields), "&")

\* C10: what toUri() returns is the name's URI, then the segments of exactly
\* the present fields in the fixed order, the first after "?" and each later
\* one after "&"; nothing after the name's URI when no field is present.
C10_ToUriIsNameAndPresentSegments ==
    ret.op = "toUri" =>
        ret.v = NameToUri(getName(p).v)
                \o JoinSegments(SelectSeq(UriFields, IsPresent), "?")

C10_Witness ==
    /\ ret.op = "toUri"
    /\ \A i \in DOMAIN UriFields : UriFields[i].present
    /\ Cardinality({i \in DOMAIN ret.v : ret.v[i] = "?"}) = 1
    /\ Cardinality({i \in DOMAIN ret.v : ret.v[i] = "&"}) = 7

\* C10, its last case: no field present, and toUri() is the name's URI alone.
C10_WitnessNoField ==
    /\ ret.op = "toUri"
    /\ \A i \in DOMAIN UriFields : ~UriFields[i].present
    /\ ret.v = NameToUri(getName(p).v)

\* The wrappers whose target has a change count the wrapper has not seen.
Unpolled(self) ==
    {w \in {"name", "keyLocator", "exclude"} : self[w].snap # self[w].target.count}

\* C13: a getChangeCount() call raises the change count by exactly one when
\* one, two or three of the sub-objects have unpolled mutations and by nothing
\* when none has; after it no wrapper has a pending change, and one more
\* getChangeCount() would return the same value.
C13_OnePollRaisesByOne ==
    [][ret'.op = "getChangeCount" =>
            /\ p'.changeCount = p.changeCount + (IF Unpolled(p) # {} THEN 1 ELSE 0)
            /\ ret'.v = p'.changeCount
            /\ Unpolled(p') = {}
            /\ getChangeCount(p').ret = ret'.v]_vars

C13_Witness ==
    /\ ret.op = "getChangeCount"
    /\ getName(p).count = 1
    /\ getKeyLocator(p).count = 1
    /\ getExclude(p).count = 1
    /\ Unpolled(p) = {}
    /\ p.changeCount = 1
    /\ ret.v = 1

Setters ==
    {"setName", "setMinSuffixComponents", "setMaxSuffixComponents", "setKeyLocator",
     "setExclude", "setChildSelector", "setMustBeFresh", "setScope",
     "setInterestLifetimeMilliseconds"}

Snapshots(self) == <<self.name.snap, self.keyLocator.snap, self.exclude.snap>>

\* C14: a call of any of the nine setters other than setNonce raises the
\* change count by exactly one, whatever the argument and the current value
\* are, and polls no wrapper.
C14_SetterRaisesCountByOne ==
    [][lastOp'.op \in Setters =>
            /\ p'.changeCount = p.changeCount + 1
            /\ Snapshots(p') = Snapshots(p)]_vars

C14_Witness ==
    /\ lastOp.op = "setScope"
    /\ lastOp.arg = None
    /\ getScope(p) = None
    /\ p.changeCount = 2
    /\ Unpolled(p) # {}

\* C18: a call of a plain getter leaves the change count, the nonce, the
\* nonce's change count and every wrapper's snapshot as they were, so that
\* getNonce() returns after it what it would have returned before it.
C18_GettersChangeNothing ==
    [][lastOp'.op \in Getters =>
            /\ p'.changeCount = p.changeCount
            /\ p'.nonce = p.nonce
            /\ p'.getNonceChangeCount = p.getNonceChangeCount
            /\ Snapshots(p') = Snapshots(p)
            /\ getNonce(p').ret = getNonce(p).ret]_vars

C18_Witness ==
    /\ lastOp.op = "getExclude"
    /\ ret.v = getExclude(p)
    /\ Unpolled(p) # {}
    /\ Len(p.nonce.v) > 0
    /\ p.getNonceChangeCount = p.changeCount

\* C15: when getNonce() or setNonce() returns, _getNonceChangeCount equals
\* _changeCount and no wrapper has an unpolled change; and getNonce() returns
\* a non-empty nonce only if _getNonceChangeCount equalled, when the call
\* began, the change count computed then.
C15_NonceSnapshotIsCurrent ==
    [][/\ lastOp'.op \in {"getNonce", "setNonce"} =>
            /\ p'.getNonceChangeCount = p'.changeCount
            /\ Unpolled(p') = {}
       /\ (lastOp'.op = "getNonce" /\ Len(ret'.v.v) > 0) =>
            p.getNonceChangeCount = getChangeCount(p).ret]_vars

C15_Witness ==
    /\ lastOp.op = "getNonce"
    /\ Len(ret.v.v) > 0
    /\ getExclude(p).count = 1
    /\ Unpolled(p) = {}
    /\ p.getNonceChangeCount = p.changeCount

\* C16: once a setter other than setNonce was called or a sub-object was
\* mutated after the last setNonce, every getNonce() returns an empty nonce,
\* whatever was called in between.
C16_ClearedNonceStaysCleared ==
    (ret.op = "getNonce" /\ since \in {"oneSetter", "direct", "more"})
    => Len(ret.v.v) = 0

C16_Witness ==
    /\ ret.op = "getNonce"
    /\ since = "more"
    /\ Len(nonceArg.v) > 0
    /\ Len(ret.v.v) = 0
    /\ p.changeCount = MaxChangeCount
    /\ p.getNonceChangeCount = p.changeCount

\* C17: after a toUri() call, getNonce(), getChangeCount() and every plain
\* getter return what they would have returned in place of the toUri() call,
\* and a second toUri() returns the same string.
C17_ToUriObservesOnly ==
    [][ret'.op = "toUri" =>
            /\ getNonce(p').ret = getNonce(p).ret
            /\ getChangeCount(p').ret = getChangeCount(p).ret
            /\ \A getter \in Getters : Get(p', getter) = Get(p, getter)
            /\ toUri(p').ret = ret'.v]_vars

C17_Witness ==
    /\ ret.op = "toUri"
    /\ obs.prev # <<>>
    /\ obs.seen = {"name"}
    /\ obs.cur[1] = obs.prev[1] + 1
    /\ Unpolled(p) = {}
    /\ Len(p.nonce.v) = 0

C11_WitnessDecoded ==
    /\ codec.call = "wireDecode"
    /\ codec.target = "self"
    /\ ~codec.raised
    /\ getScope(codec.before) # codec.input.v.fields.scope
    /\ getScope(p) = codec.input.v.fields.scope

C19_WireFormatGivenOrCurrentDefault ==
    [][lastOp'.op \in {"wireEncode", "wireDecode"} =>
            codec'.used = IF codec'.given = None THEN codec.default ELSE codec'.given]_vars

C19_Witness ==
    /\ codec.call = "wireDecode"
    /\ codec.given = None
    /\ codec.usedBefore = codec.initial
    /\ codec.default # codec.initial
    /\ codec.used = codec.default

\* C20: for every key, every plain data length (0 and the lengths that are no
\* multiple of 16 included) and both modes, encrypt returns without raising,
\* every cipher call it makes gets input of a whole number of blocks, the
\* padding length is in 1..16 and makes the padded length a multiple of 16,
\* and decrypt of the result with the same key and params returns the plain
\* data.
C20_EncryptAlignedAndRoundTrip ==
    /\ aes.stage \in {"encrypted", "decrypted"} =>
        /\ aes.padLength \in 1 .. BlockSize
        /\ (Len(aes.plainData.v) + aes.padLength) % BlockSize = 0
        /\ \A i \in 1 .. Len(aes.calls) : aes.calls[i] % BlockSize = 0
        /\ aes.stage = "encrypted" => ~aes.raised
    /\ aes.stage = "decrypted" => (~aes.raised /\ aes.decrypted = aes.plainData)

=============================================================================
